---- MODULE Spec2Model ----
(***************************************************************************)
(* simplycall: the Router (route registry + dispatcher) and the Client of  *)
(* src/index.ts, and the HTTP transport of src/transports/http.            *)
(*                                                                         *)
(* Strings are TLC strings, so identifiers and messages are built with \o  *)
(* exactly as the template literals of the source build them.             *)
(* A function object is a token [kind, name]: the member `name` of the     *)
(* handlers or parsers object given at registration.                       *)
(***************************************************************************)
EXTENDS Naturals, Sequences, FiniteSets, TLC

VARIABLES
    routes,     \* Router.routes: identifier -> [parser, handler]
    lastCall,   \* scope and Object.keys(parsers) of the last conformArgumentsThrough call
    thrown,     \* error raised by the last conformArgumentsThrough call, or NoError
    inserted,   \* identifiers the last conformArgumentsThrough call inserted
    declared,   \* <<scope, name>> pairs whose registration inserted an entry
    calls,      \* routeFromTransportInfallibly invocations, in call order
    heap,       \* receiver objects { [ctx]: rpc.ctx } allocated by dispatches
    tx,         \* the latest sendThroughTransportFallibly invocation
    txPrev,     \* envelope and request of the invocation before it
    rx,         \* the latest onRequestInfallibly invocation
    proxy,      \* the latest object returned by Client.on
    member,     \* the latest function read from a proxy
    ret         \* what the latest call of such a function returned

routerVars == <<routes, lastCall, thrown, inserted, declared, calls, heap>>
httpVars == <<tx, txPrev, rx>>
clientVars == <<proxy, member, ret>>
vars == <<routes, lastCall, thrown, inserted, declared, calls, heap,
          tx, txPrev, rx, proxy, member, ret>>

-----------------------------------------------------------------------------
(* Bounds of the model *)

MaxCalls == 2       \* dispatches started

(* Input alphabets *)

Scopes == {"s", "s a"}
Names == {"r", "a r"}
Contexts == {"c1", "c2"}
ArgLists == {<<>>, <<"x">>}    \* argument lists of an envelope
ParsedLists == {<<"y">>}       \* argument lists a parser function returns
Values == {"v", "{err}"}      \* "{err}" stands for an object that has an "err" key
Errors == {"e"}

-----------------------------------------------------------------------------
(* JavaScript values used by the router *)

NoError == ""
TypeError == "TypeError"
UndefinedValue == "undefined"

Undefined == [kind |-> "undefined", name |-> ""]

\* Property names that every plain object inherits from Object.prototype
\* ("toString", "valueOf", ... behave as "constructor" does).
ObjectPrototypeKeys == {"constructor"}

\* What a lookup of an inherited name yields: a truthy built-in that has
\* neither a parser nor a handler member.
InheritedMember == [truthy |-> TRUE, parser |-> Undefined, handler |-> Undefined]

Absent == [truthy |-> FALSE, parser |-> Undefined, handler |-> Undefined]

\* `key in obj` on a plain object: own keys and the prototype chain.
HasProperty(obj, key) == key \in DOMAIN obj \/ key \in ObjectPrototypeKeys

\* `obj[key]` on a plain object.
GetProperty(obj, key) ==
    IF key \in DOMAIN obj
    THEN [truthy |-> TRUE, parser |-> obj[key].parser, handler |-> obj[key].handler]
    ELSE IF key \in ObjectPrototypeKeys THEN InheritedMember ELSE Absent

\* `obj[key] = value`.
SetProperty(obj, key, value) ==
    [k \in DOMAIN obj \cup {key} |-> IF k = key THEN value ELSE obj[k]]

-----------------------------------------------------------------------------
(* Registration: Router.on(scope).with(handlers).conformArgumentsThrough(parsers) *)

\* The two parts joined without the separating space.
RouteIdJoined(scope, name) == scope \o name

\* `${scope} ${name}`
RouteId(scope, name) == scope \o " " \o name

DeclaredTwice(id) == "Route [" \o id \o "] was declared twice and is not unique."

\* Object.keys(parsers): a parsers object is the sequence of its [name, val]
\* members in insertion order (the names of the model are not array indices).
ObjectKeys(parsers) == [i \in 1..Len(parsers) |-> parsers[i].name]

\* parsers[name] === "assume typesafe" ? (...args) => args : parsers[name]
ParserOf(val, name) ==
    IF val = "assume typesafe"
    THEN [kind |-> "identity", name |-> name]
    ELSE [kind |-> "fn", name |-> name]

\* handlers[name]: handlers is the set of keys of the handlers object.
HandlerOf(handlers, name) ==
    IF name \in handlers THEN [kind |-> "fn", name |-> name] ELSE Undefined

\* A loop body without its uniqueness test.
IsDeclaredNever(rt, id) == FALSE

\* The uniqueness test of the loop body.
IsDeclared(rt, id) == HasProperty(rt, id)

RECURSIVE RegisterFrom(_, _, _, _, _)

\* A loop that skips a key already declared and goes on with the next one.
RegisterFromSkipping(rt, scope, handlers, parsers, i) ==
    IF i > Len(parsers)
    THEN [routes |-> rt, thrown |-> NoError]
    ELSE LET name == ObjectKeys(parsers)[i]
             id == RouteId(scope, name)
         IN  IF IsDeclared(rt, id)
             THEN RegisterFrom(rt, scope, handlers, parsers, i + 1)
             ELSE RegisterFrom(
                    SetProperty(rt, id,
                        [parser |-> ParserOf(parsers[i].val, name),
                         handler |-> HandlerOf(handlers, name)]),
                    scope, handlers, parsers, i + 1)

\* The for loop of conformArgumentsThrough from its i-th key on.
RegisterFrom(rt, scope, handlers, parsers, i) ==
    IF i > Len(parsers)
    THEN [routes |-> rt, thrown |-> NoError]
    ELSE LET name == ObjectKeys(parsers)[i]
             id == RouteId(scope, name)
         IN  IF IsDeclared(rt, id)
             THEN [routes |-> rt, thrown |-> DeclaredTwice(id)]
             ELSE RegisterFrom(
                    SetProperty(rt, id,
                        [parser |-> ParserOf(parsers[i].val, name),
                         handler |-> HandlerOf(handlers, name)]),
                    scope, handlers, parsers, i + 1)

Register(scope, handlers, parsers) ==
    LET r == RegisterFrom(routes, scope, handlers, parsers, 1)
        new == DOMAIN r.routes \ DOMAIN routes
    IN  /\ routes' = r.routes
        /\ lastCall' = [scope |-> scope, keys |-> ObjectKeys(parsers)]
        /\ thrown' = r.thrown
        /\ inserted' = new
        /\ declared' = declared \cup
                {<<scope, parsers[i].name>> : i \in
                    {j \in 1..Len(parsers) : RouteId(scope, parsers[j].name) \in new}}
        /\ UNCHANGED <<calls, heap, httpVars, clientVars>>

\* The parsers objects of the model: distinct keys among Names, in any
\* insertion order, each "assume typesafe" or a parser function.
ParserVals == {"assume typesafe", "fn"}

ParserObjs ==
    {p \in UNION {[1..n -> [name : Names, val : ParserVals]] :
                    n \in 0..Cardinality(Names)} :
        \A i, j \in 1..Len(p) : p[i].name = p[j].name => i = j}

HandlerObjs == SUBSET Names

-----------------------------------------------------------------------------
(* Dispatch: Router.routeFromTransportInfallibly(rpc) *)

\* What a parser function does when it is called: it returns an argument list
\* or throws a value.
ParserOutcomes ==
    [kind : {"return"}, args : ParsedLists, error : {NoError}]
        \cup [kind : {"throw"}, args : {<<>>}, error : Errors]

\* What a handler does when it is called: it returns a promise, or it throws
\* before returning one (a handler that is not an async function).
HandlerCalls ==
    [kind : {"promise"}, error : {NoError}] \cup [kind : {"throw"}, error : Errors]

\* How a handler's promise settles.
Settlements ==
    [kind : {"resolved"}, val : Values] \cup [kind : {"rejected"}, val : Errors]

Pending == [kind |-> "pending", val |-> ""]

Ok(v) == [kind |-> "ok", payload |-> v]
Err(kind, payload) == [kind |-> kind, payload |-> payload]
NoResult == [kind |-> "none", payload |-> ""]

NonExistent(id) == "Route [" \o id \o "] does not exist!"

\* const route = this.routes[rpc.id]
LookupRoute(rt, id) == GetProperty(rt, id)

\* A dispatcher that hands the envelope's arguments on, whatever the parser
\* returned.
RunParserRaw(route, rpc, pOut) ==
    IF route.parser.kind = "undefined"
    THEN [called |-> FALSE, threw |-> TRUE, error |-> TypeError, args |-> <<>>]
    ELSE [called |-> TRUE, threw |-> pOut.kind = "throw", error |-> pOut.error,
          args |-> rpc.args]

\* try { args = route.parser(...rpc.args) } catch (error) { ... }
\*   threw: the catch block ran; error: the value caught; args: the value assigned.
RunParser(route, rpc, pOut) ==
    IF route.parser.kind = "undefined"
    THEN [called |-> FALSE, threw |-> TRUE, error |-> TypeError, args |-> <<>>]
    ELSE IF route.parser.kind = "identity"
    THEN [called |-> TRUE, threw |-> FALSE, error |-> NoError, args |-> rpc.args]
    ELSE [called |-> TRUE, threw |-> pOut.kind = "throw", error |-> pOut.error,
          args |-> pOut.args]

\* this[ctx] as the parser sees it: the call is route.parser(...rpc.args), a
\* method call on the route entry, and the entry has no [ctx] member.
ParserThisCtx(route, rpc) == UndefinedValue

\* A catch block that does not return: the handler runs after a failed parse.
ProceedsToHandlerAlways(parse) == TRUE

\* Whether the dispatcher goes on to the handler after the try/catch.
ProceedsToHandler(parse) == ~parse.threw

\* One receiver object kept by the router and re-bound on every call.
SharedReceiver(h, c) ==
    IF h = <<>>
    THEN [heap |-> <<[ctx |-> c, mark |-> 0]>>, ref |-> 1]
    ELSE [heap |-> [h EXCEPT ![1] = [ctx |-> c, mark |-> 0]], ref |-> 1]

\* The receiver { [ctx]: rpc.ctx } of one handler call: a new object.
NewReceiver(h, c) ==
    [heap |-> Append(h, [ctx |-> c, mark |-> 0]), ref |-> Len(h) + 1]

\* The test made on the handler's value instead of on the wrapper around it.
HasErrKeyInValue(outcome) == outcome.kind = "rejected" \/ outcome.val = "{err}"

\* "err" in result, for the result of .then((ok) => ({ ok })).catch((err) => ({ err }))
HasErrKey(outcome) == outcome.kind = "rejected"

\* The Result the dispatcher returns once the handler's promise has settled.
HandlerResult(outcome) ==
    IF HasErrKey(outcome) THEN Err("handler errored", outcome.val) ELSE Ok(outcome.val)

\* The behaviours a dispatch can meet: a parser or a handler that is never
\* called has none to choose from.
ParserBehaviours(route) ==
    IF route.truthy /\ route.parser.kind = "fn"
    THEN ParserOutcomes
    ELSE {[kind |-> "return", args |-> <<>>, error |-> NoError]}

HandlerBehaviours(route, rpc, pOut) ==
    IF route.truthy /\ route.handler.kind = "fn" /\ ~RunParser(route, rpc, pOut).threw
    THEN HandlerCalls
    ELSE {[kind |-> "promise", error |-> NoError]}

NoParse == [called |-> FALSE, threw |-> FALSE, error |-> NoError, args |-> <<>>]

\* The locals of one routeFromTransportInfallibly invocation.
\*   own: whether a registration had inserted rpc.id when the call was made.
NewCall(rpc, route, own) ==
    [rpc |-> rpc, route |-> route, own |-> own,
     state |-> "running", result |-> NoResult,
     parse |-> NoParse, parserCtx |-> "",
     handlerCalled |-> FALSE, handlerArgs |-> <<>>, recv |-> 0,
     seen |-> "", seenMark |-> 0, outcome |-> Pending]

\* The synchronous part of routeFromTransportInfallibly, up to its await.
\* A handler that is called runs its body up to its first await at once: it
\* leaves a mark of its own (the number k of its call) on its receiver.
Dispatch(id, args, c, pOut, hOut) ==
    /\ Len(calls) < MaxCalls
    /\ LET k == Len(calls) + 1
           rpc == [id |-> id, args |-> args, ctx |-> c]
           route == LookupRoute(routes, id)
           call == NewCall(rpc, route, id \in DOMAIN routes)
           parse == RunParser(route, rpc, pOut)
           afterParse == [call EXCEPT !.parse = parse,
                                      !.parserCtx = IF parse.called
                                                    THEN ParserThisCtx(route, rpc) ELSE ""]
           rcv == NewReceiver(heap, c)
           invoked == [afterParse EXCEPT !.handlerCalled = TRUE,
                                         !.handlerArgs = parse.args,
                                         !.recv = rcv.ref]
       IN  IF ~route.truthy
           THEN /\ calls' = Append(calls, [call EXCEPT
                                !.state = "fulfilled",
                                !.result = Err("non existent route", NonExistent(id))])
                /\ heap' = heap
           ELSE IF ~ProceedsToHandler(parse)
           THEN /\ calls' = Append(calls, [afterParse EXCEPT
                                !.state = "fulfilled",
                                !.result = Err("argument parsing failed", parse.error)])
                /\ heap' = heap
           ELSE IF route.handler.kind = "undefined"
           THEN \* route.handler.call throws, outside the try block
                /\ calls' = Append(calls, [afterParse EXCEPT
                                !.state = "rejected",
                                !.result = Err("rejected", TypeError)])
                /\ heap' = heap
           ELSE IF hOut.kind = "throw"
           THEN \* the handler throws before it returns a promise
                /\ calls' = Append(calls, [invoked EXCEPT
                                !.state = "rejected",
                                !.result = Err("rejected", hOut.error)])
                /\ heap' = [rcv.heap EXCEPT ![rcv.ref].mark = k]
           ELSE /\ calls' = Append(calls, [invoked EXCEPT !.state = "awaiting"])
                /\ heap' = [rcv.heap EXCEPT ![rcv.ref].mark = k]
    /\ UNCHANGED <<routes, lastCall, thrown, inserted, declared, httpVars, clientVars>>

\* The last step of a handler body: it reads this[ctx] and its mark once more,
\* and its promise settles.
HandlerSettle(k, outcome) ==
    /\ k \in 1..Len(calls)
    /\ calls[k].state = "awaiting"
    /\ calls[k].outcome = Pending
    /\ calls' = [calls EXCEPT ![k].outcome = outcome,
                              ![k].seen = heap[calls[k].recv].ctx,
                              ![k].seenMark = heap[calls[k].recv].mark]
    /\ UNCHANGED <<routes, lastCall, thrown, inserted, declared, heap,
                   httpVars, clientVars>>

\* A continuation that is never run: the dispatch stays where it awaits.
ResumeLost(k) ==
    /\ k \in 1..Len(calls)
    /\ calls[k].state = "awaiting"
    /\ calls[k].outcome # Pending
    /\ UNCHANGED vars

\* The continuation after the await: the dispatcher returns its Result.
Resume(k) ==
    /\ k \in 1..Len(calls)
    /\ calls[k].state = "awaiting"
    /\ calls[k].outcome # Pending
    /\ calls' = [calls EXCEPT ![k].state = "fulfilled",
                              ![k].result = HandlerResult(calls[k].outcome)]
    /\ UNCHANGED <<routes, lastCall, thrown, inserted, declared, heap,
                   httpVars, clientVars>>

-----------------------------------------------------------------------------
(* JavaScript values carried by the HTTP transport: [t, v], t the type and   *)
(* v the text of a number or string, or the bytes of a binary blob.          *)

JsUndefined == [t |-> "undefined", v |-> ""]
JsNull == [t |-> "null", v |-> ""]
JsNumber(digits) == [t |-> "number", v |-> digits]
JsString(text) == [t |-> "string", v |-> text]
JsEmptyObject == [t |-> "object", v |-> ""]
Blob(bytes) == [t |-> "blob", v |-> bytes]
\* What a FormData holds for a Blob: a File of the same bytes.
File(bytes) == [t |-> "file", v |-> bytes]

\* The JSON-representable values of the model.
JsonValues == {JsNull, JsNumber("42"), JsString(""), JsString("a"), JsEmptyObject}

\* `x instanceof Blob`
InstanceOfBlob(x) == x.t \in {"blob", "file"}

\* `!x`
Falsy(x) == x.t \in {"undefined", "null"} \/ (x.t = "string" /\ x.v = "")

\* String(x), the conversion FormData.set applies to a value that is no Blob,
\* and x.toString() for a FormData entry.
JsToString(x) ==
    CASE x.t = "string" -> x.v
      [] x.t = "number" -> x.v
      [] x.t = "null" -> "null"
      [] x.t = "undefined" -> "undefined"
      [] x.t = "file" -> "[object File]"
      [] x.t = "blob" -> "[object Blob]"
      [] OTHER -> "[object Object]"

\* JSON.stringify(x): a string, or undefined when x is undefined.
JSONStringify(x) ==
    CASE x.t = "undefined" -> JsUndefined
      [] x.t = "null" -> JsString("null")
      [] x.t = "number" -> JsString(x.v)
      [] x.t = "string" -> JsString("\"" \o x.v \o "\"")
      [] OTHER -> JsString("{}")

\* JSON.parse(text): the value the text denotes, or a SyntaxError.
JSONParse(text) ==
    LET denoted == {x \in JsonValues : JSONStringify(x).v = text}
    IN  IF denoted = {}
        THEN [threw |-> TRUE, value |-> JsUndefined]
        ELSE [threw |-> FALSE, value |-> CHOOSE x \in denoted : TRUE]

\* `${i}` for a position i, counted from zero.
PosKey(i) == <<"0", "1", "2", "3">>[i + 1]

\* A FormData is a function from part names to entries (strings and Files).
EmptyFormData == <<>>

\* FormData.set(name, value)
FormDataSet(fd, name, value) ==
    [k \in DOMAIN fd \cup {name} |->
        IF k = name
        THEN IF InstanceOfBlob(value) THEN File(value.v) ELSE JsString(JsToString(value))
        ELSE fd[k]]

\* FormData.get(name): the entry, or null
FormDataGet(fd, name) == IF name \in DOMAIN fd THEN fd[name] ELSE JsNull

\* Header values: Headers.get yields null for a header that is absent.
Header(value) == [present |-> TRUE, value |-> value]

\* A media type: its essence and its boundary parameter ("" when it has none).
MultipartFormData == [essence |-> "multipart/form-data", boundary |-> ""]
Boundary == "----boundary"

\* Extracting a body from a FormData: the parts framed by a boundary the
\* platform chooses, and the media type that names this boundary.
ExtractBody(fd) ==
    [body |-> [boundary |-> Boundary, parts |-> fd],
     type |-> [essence |-> "multipart/form-data", boundary |-> Boundary]]

\* Body.formData(): the parts are found with the boundary parameter of the
\* Content-Type header; without it the promise rejects with a TypeError.
ParseFormData(contentType, body) ==
    IF /\ contentType.essence = "multipart/form-data"
       /\ contentType.boundary # ""
       /\ contentType.boundary = body.boundary
    THEN [ok |-> TRUE, parts |-> body.parts]
    ELSE [ok |-> FALSE, parts |-> EmptyFormData]

-----------------------------------------------------------------------------
(* The sending transport: makeTransportThroughFetch(config).                 *)
(* The value of the x-simplycall-argtype header is the sequence of its       *)
(* characters.                                                               *)

NoIdHeader == [present |-> FALSE, value |-> ""]
NoHeader == [present |-> FALSE, value |-> <<>>]

RECURSIVE Join(_)
\* chars.join("")
Join(chars) == IF chars = <<>> THEN "" ELSE Head(chars) \o Join(Tail(chars))

\* `${argtype}` for what Headers.get("x-simplycall-argtype") returned
TagText(h) == IF h.present THEN Join(h.value) ELSE "null"

ConfigUrl == "https://host/rpc"

\* new Request(url, init): a Content-Type header given in init is kept as it
\* is; only without one does the request take the media type of its body.
NewRequest(url, init) ==
    LET extracted == ExtractBody(init.body)
    IN  [url |-> url,
         method |-> init.method,
         id |-> init.headers.id,
         argtype |-> init.headers.argtype,
         contentType |-> IF init.headers.contentType.present
                         THEN init.headers.contentType.value
                         ELSE extracted.type,
         body |-> extracted.body]

RECURSIVE EncodeFrom(_, _, _, _)
\* A loop that tags every argument as structured.
EncodeFromStructured(body, argtype, args, i) ==
    IF i > Len(args)
    THEN [body |-> body, argtype |-> argtype]
    ELSE EncodeFrom(
            FormDataSet(body, PosKey(i - 1),
                        IF InstanceOfBlob(args[i]) THEN args[i] ELSE JSONStringify(args[i])),
            Append(argtype, "j"),
            args, i + 1)

\* The loop over rpc.args: one part and one tag character per argument.
EncodeFrom(body, argtype, args, i) ==
    IF i > Len(args)
    THEN [body |-> body, argtype |-> argtype]
    ELSE EncodeFrom(
            FormDataSet(body, PosKey(i - 1),
                        IF InstanceOfBlob(args[i]) THEN args[i] ELSE JSONStringify(args[i])),
            Append(argtype, IF InstanceOfBlob(args[i]) THEN "b" ELSE "j"),
            args, i + 1)

\* A request that also names the context in its id header.
SendRequestWithCtx(rpc, url) ==
    LET encoded == EncodeFrom(EmptyFormData, <<>>, rpc.args, 1)
    IN  NewRequest(url,
            [headers |-> [id |-> Header(rpc.id \o ";" \o rpc.ctx),
                          argtype |-> Header(encoded.argtype),
                          contentType |-> Header(MultipartFormData)],
             method |-> "POST",
             body |-> encoded.body])

\* The request that sendThroughTransportFallibly hands to fetch.
SendRequest(rpc, url) ==
    LET encoded == EncodeFrom(EmptyFormData, <<>>, rpc.args, 1)
    IN  NewRequest(url,
            [headers |-> [id |-> Header(rpc.id),
                          argtype |-> Header(encoded.argtype),
                          contentType |-> Header(MultipartFormData)],
             method |-> "POST",
             body |-> encoded.body])

\* Every tag passes.
TagRecognisedAlways(argtype) == TRUE

\* `argtype !== "b" && argtype !== "j"`, negated
TagRecognised(argtype) == argtype.present /\ argtype.value \in {<<"b">>, <<"j">>}

Resolved(value, bodyRead) ==
    [kind |-> "resolved", value |-> value, error |-> NoError, bodyRead |-> bodyRead]
Rejected(error, bodyRead) ==
    [kind |-> "rejected", value |-> JsUndefined, error |-> error, bodyRead |-> bodyRead]

UnableToParse(argtype, id) ==
    "Unable to parse response type [" \o TagText(argtype) \o "] for [" \o id \o "]."
NoResponseReceived(id) == "No response received for [" \o id \o "]."

\* The callback given to then(): how its promise settles for a response.
ThenCallback(rpc, response) ==
    IF ~TagRecognised(response.argtype)
    THEN Rejected(UnableToParse(response.argtype, rpc.id), FALSE)
    ELSE LET formData == ParseFormData(response.contentType, response.body)
             part == FormDataGet(formData.parts, "0")
             parsed == JSONParse(JsToString(part))
         IN  IF ~formData.ok THEN Rejected(TypeError, TRUE)
             ELSE IF Falsy(part) THEN Rejected(NoResponseReceived(rpc.id), TRUE)
             ELSE IF response.argtype.value = <<"b">> THEN Resolved(part, TRUE)
             ELSE IF parsed.threw THEN Rejected("SyntaxError", TRUE)
             ELSE Resolved(parsed.value, TRUE)

\* `await fetch(...).then(...)` as the last statement of the async function:
\* a rejection propagates, a resolution is awaited and nothing is returned.
AwaitThen(settled) ==
    IF settled.kind = "rejected"
    THEN [state |-> "rejected", value |-> JsUndefined, error |-> settled.error]
    ELSE [state |-> "fulfilled", value |-> JsUndefined, error |-> NoError]

NoRpc == [id |-> "", args |-> <<>>, ctx |-> UndefinedValue]
NoRequest == NewRequest("", [headers |-> [id |-> NoIdHeader, argtype |-> NoHeader,
                                          contentType |-> Header(MultipartFormData)],
                             method |-> "", body |-> EmptyFormData])
NoResponse == [argtype |-> NoHeader, contentType |-> MultipartFormData,
               body |-> [boundary |-> "", parts |-> EmptyFormData]]
\* What sendThroughTransportFallibly returns: the promise of this invocation.
PromiseOf(rpc) == [promiseOf |-> rpc]

NoSend == [state |-> "none", rpc |-> NoRpc, request |-> NoRequest,
           promise |-> PromiseOf(NoRpc), responded |-> FALSE,
           response |-> NoResponse, callback |-> Rejected(NoError, FALSE),
           value |-> JsUndefined, error |-> NoError]
NoPrev == [made |-> FALSE, rpc |-> NoRpc, request |-> NoRequest]

\* sendThroughTransportFallibly(rpc), up to its await: the request is issued.
SendThrough(rpc) ==
    /\ tx' = [NoSend EXCEPT !.state = "fetching", !.rpc = rpc,
                            !.request = SendRequest(rpc, ConfigUrl),
                            !.promise = PromiseOf(rpc)]
    /\ txPrev' = IF tx.state = "none" THEN NoPrev
                 ELSE [made |-> TRUE, rpc |-> tx.rpc, request |-> tx.request]

Send(rpc) ==
    /\ SendThrough(rpc)
    /\ UNCHANGED <<routerVars, rx, clientVars>>

\* The promise of fetch resolves with a response: the callback runs and the
\* invocation settles.
FetchResponds(response) ==
    /\ tx.state = "fetching"
    /\ LET settled == ThenCallback(tx.rpc, response)
           after == AwaitThen(settled)
       IN  tx' = [tx EXCEPT !.state = after.state, !.response = response,
                            !.responded = TRUE,
                            !.callback = settled,
                            !.value = after.value, !.error = after.error]
    /\ UNCHANGED <<routerVars, txPrev, rx, clientVars>>

\* The promise of fetch rejects (no connection): the invocation rejects.
FetchFails ==
    /\ tx.state = "fetching"
    /\ tx' = [tx EXCEPT !.state = "rejected", !.error = "fetch failed"]
    /\ UNCHANGED <<routerVars, txPrev, rx, clientVars>>

\* Envelopes handed to the sending transport.
SendIds == {"s r", "s missing"}
SendArgLists ==
    {<<>>, <<JsNumber("42")>>, <<Blob("B")>>, <<JsString(""), Blob("B")>>,
     <<JsNull, JsString("a")>>}
SendRpcs == [id : SendIds, args : SendArgLists, ctx : Contexts]

\* Responses a server may give.
ResponseTags == {NoHeader, Header(<<"b">>), Header(<<"j">>), Header(<<"x">>)}
ResponseParts ==
    {EmptyFormData} \cup
    {FormDataSet(EmptyFormData, "0", e) :
        e \in {JsString(""), JsString("42"), JsString("nope"), Blob("B")}}
Responses ==
    {[argtype |-> t, contentType |-> ct, body |-> [boundary |-> Boundary, parts |-> p]] :
        t \in ResponseTags, p \in ResponseParts,
        ct \in {MultipartFormData, ExtractBody(EmptyFormData).type}}

-----------------------------------------------------------------------------
(* The receiving transport: makeTransportFromFetch(handler).                 *)
(* A result object is [tag, value]: {ok: value} or {err: value}. An object   *)
(* is [class, props], props being its own enumerable properties.             *)

PlainObject(key, value) == [class |-> "Object", props |-> [k \in {key} |-> value]]
ErrorInstance(name) == [class |-> name, props |-> [k \in {} |-> ""]]

NoReturn == [tag |-> "none", value |-> JsUndefined]
OkResult(value) == [tag |-> "ok", value |-> value]
\* { err: { [kind]: payload } }
ErrResult(kind, payload) == [tag |-> "err", value |-> PlainObject(kind, payload)]

\* A Result of the router, as the object it is.
RouterResult(result) ==
    IF result.kind = "ok" THEN OkResult(result.payload)
    ELSE ErrResult(result.kind, result.payload)

\* The tag header is looked at before the id header.
CheckHeadersTagFirst(request) ==
    IF ~request.argtype.present THEN ErrResult("function arguments are untyped", "")
    ELSE IF ~request.id.present THEN ErrResult("id not provided", "")
    ELSE NoReturn

\* The two `typeof ... !== "string"` returns.
CheckHeaders(request) ==
    IF ~request.id.present THEN ErrResult("id not provided", "")
    ELSE IF ~request.argtype.present THEN ErrResult("function arguments are untyped", "")
    ELSE NoReturn

UnknownArgumentType(id, argtype) ==
    "Route [" \o id \o "] called with unknown argument type of [" \o Join(argtype) \o "]."
MissingArgument(id, type, key) ==
    "Route [" \o id \o "] is missing [" \o type \o "] type argument at position ["
        \o key \o "]."

RECURSIVE DecodeFrom(_, _, _, _, _)
\* A loop that passes every part through, whatever its tag is.
DecodeFromUntouched(id, argtype, formData, args, i) ==
    IF i > Len(argtype)
    THEN [ret |-> NoReturn, threw |-> FALSE, args |-> args]
    ELSE LET type == argtype[i]
             data == FormDataGet(formData, PosKey(i - 1))
         IN  IF type # "b" /\ type # "j"
             THEN [ret |-> ErrResult("unknown argument type",
                                     UnknownArgumentType(id, argtype)),
                   threw |-> FALSE, args |-> args]
             ELSE IF Falsy(data)
             THEN [ret |-> ErrResult("missing argument",
                                     MissingArgument(id, type, PosKey(i - 1))),
                   threw |-> FALSE, args |-> args]
             ELSE DecodeFrom(id, argtype, formData, Append(args, data), i + 1)

\* The loop over the characters of argtype, from the i-th on (position i - 1).
DecodeFrom(id, argtype, formData, args, i) ==
    IF i > Len(argtype)
    THEN [ret |-> NoReturn, threw |-> FALSE, args |-> args]
    ELSE LET type == argtype[i]
             data == FormDataGet(formData, PosKey(i - 1))
             parsed == JSONParse(JsToString(data))
         IN  IF type # "b" /\ type # "j"
             THEN [ret |-> ErrResult("unknown argument type",
                                     UnknownArgumentType(id, argtype)),
                   threw |-> FALSE, args |-> args]
             ELSE IF Falsy(data)
             THEN [ret |-> ErrResult("missing argument",
                                     MissingArgument(id, type, PosKey(i - 1))),
                   threw |-> FALSE, args |-> args]
             ELSE IF type = "b"
             THEN DecodeFrom(id, argtype, formData, Append(args, data), i + 1)
             ELSE IF parsed.threw
             THEN [ret |-> NoReturn, threw |-> TRUE, args |-> args]
             ELSE DecodeFrom(id, argtype, formData, Append(args, parsed.value), i + 1)

\* `response.ok instanceof Blob ? "b" : "j"`
ResponseTag(value) == IF InstanceOfBlob(value) THEN "b" ELSE "j"

\* The body and headers made for a success.
Success(value) ==
    [body |-> FormDataSet(EmptyFormData, "0",
                          IF InstanceOfBlob(value) THEN value ELSE JSONStringify(value)),
     headers |-> [argtype |-> Header(<<ResponseTag(value)>>),
                  contentType |-> Header(MultipartFormData)]]

NoOutcome == [settled |-> "pending", result |-> NoReturn]
NoReceive == [state |-> "none", request |-> NoRequest, ctx |-> "",
              wired |-> FALSE, sent |-> NoRpc,
              bodyRead |-> FALSE, envelopes |-> <<>>, outcome |-> NoOutcome,
              result |-> NoReturn, error |-> NoError]

\* onRequestInfallibly(request, ctx), up to the call of the dispatcher.
\*   wired, sent: whether the request is the one the sending transport issued
\*   for the envelope sent.
OnRequest(request, c, wired, sent) ==
    /\ LET started == [NoReceive EXCEPT !.request = request, !.ctx = c,
                                        !.wired = wired, !.sent = sent]
           early == CheckHeaders(request)
           formData == ParseFormData(request.contentType, request.body)
           decoded == DecodeFrom(request.id.value, request.argtype.value,
                                 formData.parts, <<>>, 1)
           read == [started EXCEPT !.bodyRead = TRUE]
       IN  rx' = IF early.tag # "none"
                 THEN [started EXCEPT !.state = "fulfilled", !.result = early]
                 ELSE IF ~formData.ok
                 THEN \* `return maybeFormData`: { err } holding the error itself
                      [read EXCEPT !.state = "fulfilled",
                                   !.result = [tag |-> "err",
                                               value |-> ErrorInstance(TypeError)]]
                 ELSE IF decoded.threw
                 THEN \* JSON.parse throws, outside any try block
                      [read EXCEPT !.state = "rejected", !.error = "SyntaxError"]
                 ELSE IF decoded.ret.tag # "none"
                 THEN [read EXCEPT !.state = "fulfilled", !.result = decoded.ret]
                 ELSE [read EXCEPT !.state = "dispatching",
                                   !.envelopes = <<[args |-> decoded.args, ctx |-> c,
                                                    id |-> request.id.value]>>]
    /\ UNCHANGED <<routerVars, tx, txPrev, clientVars>>

\* The promise of handler.routeFromTransportInfallibly settles and
\* onRequestInfallibly returns.
DispatcherReturns(outcome) ==
    /\ rx.state = "dispatching"
    /\ rx' = IF outcome.settled = "rejected"
             THEN [rx EXCEPT !.state = "rejected", !.outcome = outcome,
                             !.error = "rejected"]
             ELSE IF outcome.result.tag = "err"
             THEN [rx EXCEPT !.state = "fulfilled", !.outcome = outcome,
                             !.result = outcome.result]
             ELSE [rx EXCEPT !.state = "fulfilled", !.outcome = outcome,
                             !.result = OkResult(Success(outcome.result.value))]
    /\ UNCHANGED <<routerVars, tx, txPrev, clientVars>>

\* What a dispatch of the router gives: a Result, or a rejection when the
\* handler is missing or throws before its first await.
ResultValues == {JsUndefined, JsNull, JsNumber("42"), JsString(""), Blob("B")}
DispatcherOutcomes ==
    {[settled |-> "fulfilled", result |-> RouterResult(Ok(v))] : v \in ResultValues}
    \cup {[settled |-> "fulfilled", result |-> RouterResult(Err(k, "e"))] :
            k \in {"non existent route", "argument parsing failed", "handler errored"}}
    \cup {[settled |-> "rejected", result |-> NoReturn]}

\* Requests a server may be given.
RequestIds == {NoIdHeader, Header("s r")}
RequestTags ==
    {NoHeader} \cup
    {Header(t) : t \in {<<>>, <<"j">>, <<"b">>, <<"j", "b">>, <<"x">>, <<"j", "x">>}}
RequestEntries == {JsString("42"), JsString(""), JsString("nope"), File("B")}
RequestParts == UNION {[keys -> RequestEntries] : keys \in SUBSET {"0", "1"}}
Requests ==
    {[url |-> ConfigUrl, method |-> "POST", id |-> i, argtype |-> t,
      contentType |-> ct, body |-> [boundary |-> Boundary, parts |-> p]] :
        i \in RequestIds, t \in RequestTags, p \in RequestParts,
        ct \in {MultipartFormData, ExtractBody(EmptyFormData).type}}

\* The request of the latest send as it reaches the server, and the same
\* request from a client that lets the platform name the boundary.
Framed(request) == [request EXCEPT !.contentType = ExtractBody(request.body.parts).type]

-----------------------------------------------------------------------------
(* The Client: Client.on(scope, ...options) and the functions of its proxy.  *)

NoProxy == [made |-> FALSE, scope |-> "", options |-> <<>>]
NoMember == [made |-> FALSE, scope |-> "", options |-> <<>>, prop |-> ""]
NoRet == [made |-> FALSE, args |-> <<>>, value |-> PromiseOf(NoRpc)]

\* `options[0]`
FirstOption(options) == IF options = <<>> THEN UndefinedValue ELSE options[1]

\* An envelope that leaves the context out.
EnvelopeWithoutCtx(fn, args) ==
    [id |-> fn.scope \o " " \o fn.prop, args |-> args, ctx |-> UndefinedValue]

\* The object literal given to sendThroughTransportFallibly.
Envelope(fn, args) ==
    [id |-> fn.scope \o " " \o fn.prop, args |-> args, ctx |-> FirstOption(fn.options)]

\* client.on(scope, ...options): a new proxy; nothing else happens.
ClientOn(scope, options) ==
    /\ proxy' = [made |-> TRUE, scope |-> scope, options |-> options]
    /\ UNCHANGED <<routerVars, httpVars, member, ret>>

\* The get trap for a string property: a new function closing over scope
\* and options; nothing is sent.
ClientGet(prop) ==
    /\ proxy.made
    /\ member' = [made |-> TRUE, scope |-> proxy.scope, options |-> proxy.options,
                  prop |-> prop]
    /\ UNCHANGED <<routerVars, httpVars, proxy, ret>>

\* A call of such a function: it returns what the transport's send returns.
ClientInvoke(args) ==
    /\ member.made
    /\ SendThrough(Envelope(member, args))
    /\ ret' = [made |-> TRUE, args |-> args, value |-> tx'.promise]
    /\ UNCHANGED <<routerVars, rx, proxy, member>>

ClientOptions == {<<>>} \cup {<<c>> : c \in Contexts}
ClientArgLists == {<<>>, <<JsNumber("42")>>}

-----------------------------------------------------------------------------
\* The registrations made on the router that serves the dispatches of Spec.
ServedScopes == {"s"}
ServedNames == {"r"}
ServedParserObjs == {p \in ParserObjs : \A i \in 1..Len(p) : p[i].name \in ServedNames}
ServedHandlerObjs == SUBSET ServedNames

\* Identifiers a transport may dispatch: the identifiers registered above, one
\* that no registration inserts, and names every object inherits.
DispatchIds ==
    {RouteId(s, n) : s \in ServedScopes, n \in ServedNames} \cup {"s missing"}
        \cup ObjectPrototypeKeys

-----------------------------------------------------------------------------
Init ==
    /\ routes = <<>>
    /\ lastCall = [scope |-> "", keys |-> <<>>]
    /\ thrown = NoError
    /\ inserted = {}
    /\ declared = {}
    /\ calls = <<>>
    /\ heap = <<>>
    /\ tx = NoSend
    /\ txPrev = NoPrev
    /\ rx = NoReceive
    /\ proxy = NoProxy
    /\ member = NoMember
    /\ ret = NoRet

\* The router serving calls: registration and dispatch interleave freely.
Next ==
    \/ \E scope \in ServedScopes, handlers \in ServedHandlerObjs,
          parsers \in ServedParserObjs :
            Register(scope, handlers, parsers)
    \/ \E id \in DispatchIds, args \in ArgLists, c \in Contexts :
          \E pOut \in ParserBehaviours(LookupRoute(routes, id)) :
            \E hOut \in HandlerBehaviours(LookupRoute(routes, id),
                                          [id |-> id, args |-> args, ctx |-> c], pOut) :
                Dispatch(id, args, c, pOut, hOut)
    \/ \E k \in 1..MaxCalls, outcome \in Settlements : HandlerSettle(k, outcome)
    \/ \E k \in 1..MaxCalls : Resume(k)

Spec == Init /\ [][Next]_vars

\* The registry alone, under every registration of the model.
NextRegistry ==
    \E scope \in Scopes, handlers \in HandlerObjs, parsers \in ParserObjs :
        Register(scope, handlers, parsers)

SpecRegistry == Init /\ [][NextRegistry]_vars

\* The sending transport and the server's responses.
NextSend ==
    \/ \E rpc \in SendRpcs : Send(rpc)
    \/ \E response \in Responses : FetchResponds(response)
    \/ FetchFails

SpecSend == Init /\ [][NextSend]_vars

\* The receiving transport under every request of the model.
NextReceive ==
    \/ \E request \in Requests, c \in Contexts : OnRequest(request, c, FALSE, NoRpc)
    \/ \E outcome \in DispatcherOutcomes : DispatcherReturns(outcome)

SpecReceive == Init /\ [][NextReceive]_vars

\* The two transports joined: the server is given the request of the latest
\* send, as issued or framed.
NextWire ==
    \/ \E rpc \in SendRpcs : Send(rpc)
    \/ /\ tx.state = "fetching"
       /\ \E c \in Contexts : OnRequest(tx.request, c, TRUE, tx.rpc)
    \/ /\ tx.state = "fetching"
       /\ \E c \in Contexts : OnRequest(Framed(tx.request), c, FALSE, tx.rpc)
    \/ \E outcome \in DispatcherOutcomes : DispatcherReturns(outcome)

SpecWire == Init /\ [][NextWire]_vars

\* new Response(result.ok.body, { headers: result.ok.headers }): the response
\* a server makes from a success; a Content-Type among the headers is kept.
ResponseFrom(success) ==
    LET extracted == ExtractBody(success.body)
    IN  [argtype |-> success.headers.argtype,
         contentType |-> IF success.headers.contentType.present
                         THEN success.headers.contentType.value
                         ELSE extracted.type,
         body |-> extracted.body]

\* The server answers the latest send with the success of the latest
\* onRequestInfallibly call.
Reply ==
    /\ rx.state = "fulfilled"
    /\ rx.result.tag = "ok"
    /\ FetchResponds(ResponseFrom(rx.result.value))

\* A call and its answer: the request of the latest send, framed, is given to
\* the server, and the server's success is the response to the send.
NextReply ==
    \/ \E rpc \in SendRpcs : Send(rpc)
    \/ /\ tx.state = "fetching"
       /\ \E c \in Contexts : OnRequest(Framed(tx.request), c, FALSE, tx.rpc)
    \/ \E outcome \in DispatcherOutcomes : DispatcherReturns(outcome)
    \/ Reply

SpecReply == Init /\ [][NextReply]_vars

\* The router under fair scheduling: the continuation of a dispatch whose
\* handler promise has settled is run; nothing makes a handler settle.
\* The dispatches all carry the same arguments and context.
NextLive ==
    \/ \E scope \in ServedScopes, handlers \in ServedHandlerObjs,
          parsers \in ServedParserObjs :
            Register(scope, handlers, parsers)
    \/ \E id \in DispatchIds :
          \E pOut \in ParserBehaviours(LookupRoute(routes, id)) :
            \E hOut \in HandlerBehaviours(LookupRoute(routes, id),
                                          [id |-> id, args |-> <<>>, ctx |-> "c1"], pOut) :
                Dispatch(id, <<>>, "c1", pOut, hOut)
    \/ \E k \in 1..MaxCalls, outcome \in Settlements : HandlerSettle(k, outcome)
    \/ \E k \in 1..MaxCalls : Resume(k)

SpecLive == Init /\ [][NextLive]_vars /\ \A k \in 1..MaxCalls : WF_vars(Resume(k))

\* The client over the sending transport.
NextClient ==
    \/ \E scope \in Scopes, options \in ClientOptions : ClientOn(scope, options)
    \/ \E prop \in Names : ClientGet(prop)
    \/ \E args \in ClientArgLists : ClientInvoke(args)

SpecClient == Init /\ [][NextClient]_vars

-----------------------------------------------------------------------------
(* Properties of the dispatcher *)

Calls == 1..Len(calls)

\* C1: routeFromTransportInfallibly never raises: whatever the registry, the
\* envelope and the behaviour of parser and handler, the promise it returns
\* is never rejected.
C1_NeverRejected == \A k \in Calls : calls[k].state # "rejected"

\* C2: dispatching an identifier that no registration inserted resolves to
\* the "non existent route" failure naming that identifier, and neither a
\* parser nor a handler is invoked.
C2_UnregisteredIsNonExistent ==
    \A k \in Calls :
        ~calls[k].own =>
            /\ calls[k].state = "fulfilled"
            /\ calls[k].result =
                    [kind |-> "non existent route",
                     payload |-> "Route [" \o calls[k].rpc.id \o "] does not exist!"]
            /\ ~calls[k].parse.called
            /\ ~calls[k].handlerCalled

\* C3: when the registered parser raises a value e, the dispatch resolves to
\* the "argument parsing failed" failure carrying exactly e, and the handler
\* is not invoked for that call.
C3_ParserRaise ==
    \A k \in Calls :
        (calls[k].parse.called /\ calls[k].parse.threw) =>
            /\ calls[k].state = "fulfilled"
            /\ calls[k].result =
                    [kind |-> "argument parsing failed", payload |-> calls[k].parse.error]
            /\ ~calls[k].handlerCalled
            /\ calls[k].outcome = Pending

C3_Witness ==
    \E k \in Calls :
        /\ calls[k].parse.called /\ calls[k].parse.threw
        /\ calls[k].parse.error \in Errors
        /\ calls[k].result.kind = "argument parsing failed"

\* C4: once the parser has succeeded, the Result is the handler's
\* asynchronous outcome: rejected with e gives "handler errored" carrying e,
\* resolved with v gives ok carrying v, whatever v looks like.
C4_HandlerOutcome ==
    \A k \in Calls :
        /\ (calls[k].state = "fulfilled" /\ calls[k].outcome.kind = "rejected") =>
                calls[k].result =
                    [kind |-> "handler errored", payload |-> calls[k].outcome.val]
        /\ (calls[k].state = "fulfilled" /\ calls[k].outcome.kind = "resolved") =>
                calls[k].result = [kind |-> "ok", payload |-> calls[k].outcome.val]
        /\ calls[k].result.kind \in {"ok", "handler errored"} =>
                /\ calls[k].outcome # Pending
                /\ ~calls[k].parse.threw

C4_Witness ==
    /\ \E k \in Calls :
            /\ calls[k].outcome = [kind |-> "resolved", val |-> "{err}"]
            /\ calls[k].result = [kind |-> "ok", payload |-> "{err}"]
    /\ \E k \in Calls :
            /\ calls[k].outcome.kind = "rejected"
            /\ calls[k].result.kind = "handler errored"

\* C5: the parser is invoked with this bound to the envelope's context: the
\* context a parser function reads through the ctx symbol is the ctx of the
\* envelope of that call.
C5_ParserSeesContext ==
    \A k \in Calls :
        (calls[k].parse.called /\ calls[k].route.parser.kind = "fn") =>
            calls[k].parserCtx = calls[k].rpc.ctx

\* C6: with several dispatches in flight, each handler reads its own
\* envelope's ctx through this[ctx] for the whole call, its receiver is an
\* object of its own, and its Result comes from its own handler's outcome.
C6_NoCrossCallInterference ==
    /\ \A k \in Calls :
            calls[k].handlerCalled =>
                /\ calls[k].recv \in 1..Len(heap)
                /\ heap[calls[k].recv].ctx = calls[k].rpc.ctx
                /\ heap[calls[k].recv].mark = k
                /\ calls[k].outcome # Pending =>
                        /\ calls[k].seen = calls[k].rpc.ctx
                        /\ calls[k].seenMark = k
                /\ (calls[k].state = "fulfilled") =>
                        calls[k].result.payload = calls[k].outcome.val
    /\ \A j, k \in Calls :
            (calls[j].handlerCalled /\ calls[k].handlerCalled /\ j # k) =>
                calls[j].recv # calls[k].recv

C6_Witness ==
    /\ Len(calls) >= 2
    /\ calls[1].state = "awaiting" /\ calls[1].outcome = Pending
    /\ calls[2].state = "fulfilled" /\ calls[2].handlerCalled
    /\ calls[2].rpc.ctx # calls[1].rpc.ctx
    /\ calls[2].seen = calls[2].rpc.ctx
-----------------------------------------------------------------------------
(* Properties of the registry *)

\* A step that is a conformArgumentsThrough call.
RegisterStep == calls' = calls /\ heap' = heap

\* The identifier of the i-th key of the call just made.
IdAt(i) == lastCall'.scope \o " " \o lastCall'.keys[i]

\* The keys of the call just made whose identifier the registry held.
Duplicates == {i \in 1..Len(lastCall'.keys) : IdAt(i) \in DOMAIN routes}

\* The first duplicate key in iteration order, or Len + 1 when there is none.
FirstDuplicate ==
    IF Duplicates = {}
    THEN Len(lastCall'.keys) + 1
    ELSE CHOOSE i \in Duplicates : \A j \in Duplicates : i <= j

\* C7: registering a (scope, name) pair whose identifier the registry holds
\* raises "Route [<identifier>] was declared twice and is not unique." naming
\* that identifier; registering it while the identifier is absent succeeds
\* and makes the identifier dispatchable.
C7_DuplicateRaises ==
    [][RegisterStep =>
        /\ FirstDuplicate <= Len(lastCall'.keys) =>
                thrown' = "Route [" \o IdAt(FirstDuplicate)
                            \o "] was declared twice and is not unique."
        /\ FirstDuplicate > Len(lastCall'.keys) => thrown' = NoError
        /\ \A i \in 1..Len(lastCall'.keys) :
                i < FirstDuplicate =>
                    /\ IdAt(i) \in DOMAIN routes'
                    /\ LookupRoute(routes', IdAt(i)).truthy
                    /\ LookupRoute(routes', IdAt(i)).parser.name = lastCall'.keys[i]
       ]_vars

C7_Witness ==
    /\ thrown = "Route [s r] was declared twice and is not unique."
    /\ lastCall = [scope |-> "s", keys |-> <<"r">>]
    /\ <<"s", "r">> \in declared
    /\ "s r" \in DOMAIN routes

\* C8: the identifier -> entry mapping is write-once: an identifier that maps
\* to an entry maps to the same parser and handler in every later state,
\* whatever registrations and dispatches follow.
C8_WriteOnce ==
    [][\A id \in DOMAIN routes :
            /\ id \in DOMAIN routes'
            /\ routes'[id].parser = routes[id].parser
            /\ routes'[id].handler = routes[id].handler]_vars

C8_Witness ==
    /\ thrown # NoError
    /\ "s r" \in DOMAIN routes
    /\ \E k \in Calls : calls[k].own /\ calls[k].state = "fulfilled"

\* C9: a batch that meets a declared identifier aborts at once with the error
\* naming it and without rollback: the keys before the duplicate stay
\* registered and dispatchable, the keys after it are not registered, and the
\* entries that existed before are unchanged.
C9_BatchAbortsWithoutRollback ==
    [][(RegisterStep /\ FirstDuplicate <= Len(lastCall'.keys)) =>
        /\ thrown' = "Route [" \o IdAt(FirstDuplicate)
                        \o "] was declared twice and is not unique."
        /\ \A i \in 1..(FirstDuplicate - 1) :
                /\ IdAt(i) \in DOMAIN routes'
                /\ LookupRoute(routes', IdAt(i)).truthy
                /\ routes'[IdAt(i)].parser.name = lastCall'.keys[i]
        /\ \A i \in (FirstDuplicate + 1)..Len(lastCall'.keys) :
                IdAt(i) \in DOMAIN routes' => IdAt(i) \in DOMAIN routes
        /\ \A id \in DOMAIN routes :
                id \in DOMAIN routes' /\ routes'[id] = routes[id]
        /\ DOMAIN routes' =
                DOMAIN routes \cup {IdAt(i) : i \in 1..(FirstDuplicate - 1)}
       ]_vars

\* A failing batch of two keys whose first key stays registered.
C9_Witness ==
    /\ thrown # NoError
    /\ Len(lastCall.keys) = 2
    /\ inserted = {lastCall.scope \o " " \o lastCall.keys[1]}
    /\ inserted \subseteq DOMAIN routes

\* C10: registration fails only for a repeated (scope, name) pair: a call
\* none of whose (scope, name) pairs was registered before succeeds, spaces
\* in scope or name or not.
C10_OnlyRepeatedPairFails ==
    [][(RegisterStep
            /\ \A i \in 1..Len(lastCall'.keys) :
                    <<lastCall'.scope, lastCall'.keys[i]>> \notin declared)
        => thrown' = NoError
       ]_vars

-----------------------------------------------------------------------------
(* Properties of the HTTP transport and of the client *)

\* C11: a send whose response carries tag b or j and a part "0" that decodes
\* resolves with the decoded value (the part for b, the parsed value for j).
C11_ResolvesWithDecodedValue ==
    (tx.responded /\ tx.callback.kind = "resolved") =>
        (tx.state = "fulfilled" /\ tx.value = tx.callback.value)

\* Whether the receive side got back the argument that was sent: the same
\* bytes for a binary blob, an equal value otherwise.
SameArgument(sent, got) ==
    IF InstanceOfBlob(sent) THEN InstanceOfBlob(got) /\ got.v = sent.v ELSE got = sent

\* C12: when the server is given the request that a send issued, the
\* dispatcher is called with an argument list of the same length as the one
\* sent, equal to it position by position.
C12_ArgumentRoundTrip ==
    (rx.state # "none" /\ rx.wired) =>
        /\ Len(rx.envelopes) = 1
        /\ Len(rx.envelopes[1].args) = Len(rx.sent.args)
        /\ \A i \in 1..Len(rx.sent.args) :
                SameArgument(rx.sent.args[i], rx.envelopes[1].args[i])

\* C13: the promise of onRequestInfallibly is never rejected.
C13_ReceiveNeverRejected == rx.state # "rejected"

\* C14: every failure the receive side returns is {err: K}, K a plain object
\* with exactly one property, the failure kind.
C14_FailureShape ==
    (rx.state = "fulfilled" /\ rx.result.tag = "err") =>
        /\ rx.result.value.class = "Object"
        /\ Cardinality(DOMAIN rx.result.value.props) = 1

\* C15: two sends of the same id and args issue the same request whatever
\* their ctx is, and the dispatcher is handed the ctx argument of
\* onRequestInfallibly.
C15_ContextNotOnWire ==
    /\ (txPrev.made /\ txPrev.rpc.id = tx.rpc.id /\ txPrev.rpc.args = tx.rpc.args) =>
            txPrev.request = tx.request
    /\ \A i \in 1..Len(rx.envelopes) : rx.envelopes[i].ctx = rx.ctx

C15_Witness ==
    /\ txPrev.made
    /\ txPrev.rpc.id = tx.rpc.id /\ txPrev.rpc.args = tx.rpc.args
    /\ txPrev.rpc.ctx # tx.rpc.ctx
    /\ tx.rpc.args # <<>>
    /\ rx.state = "dispatching"
    /\ rx.ctx # rx.sent.ctx

\* C16: a call of a member p of client.on(scope, c) with args makes one send
\* of {id: scope + " " + p, args, ctx: c} (ctx undefined without c) and
\* returns what the send returned; making a proxy or reading a member sends
\* nothing.
C16_ClientEnvelope ==
    [][ /\ (tx' # tx \/ txPrev' # txPrev \/ ret' # ret) =>
            /\ member.made /\ member' = member
            /\ tx'.state = "fetching"
            /\ tx'.rpc.id = member.scope \o " " \o member.prop
            /\ tx'.rpc.args = ret'.args
            /\ tx'.rpc.ctx = (IF member.options = <<>> THEN UndefinedValue
                              ELSE member.options[1])
            /\ ret'.value = tx'.promise
            /\ txPrev' = (IF tx.state = "none" THEN txPrev
                          ELSE [made |-> TRUE, rpc |-> tx.rpc, request |-> tx.request])
        /\ (proxy' # proxy \/ member' # member) =>
            (tx' = tx /\ txPrev' = txPrev /\ ret' = ret)
      ]_vars

C16_Witness ==
    /\ ret.made /\ ret.args # <<>>
    /\ tx.state = "fetching"
    /\ tx.rpc = [id |-> "s a r", args |-> ret.args, ctx |-> UndefinedValue]
    /\ txPrev.made /\ txPrev.rpc.ctx = "c1"
    /\ member.prop = "r" /\ proxy.scope = "s"

\* C17: without the id header the result is "id not provided"; with it but
\* without the tag header the result is "function arguments are untyped"; in
\* both cases the body is not read and the dispatcher is not called.
C17_MissingHeaders ==
    (rx.state # "none") =>
        /\ ~rx.request.id.present =>
            /\ rx.state = "fulfilled"
            /\ rx.result = ErrResult("id not provided", "")
            /\ ~rx.bodyRead /\ rx.envelopes = <<>>
        /\ (rx.request.id.present /\ ~rx.request.argtype.present) =>
            /\ rx.state = "fulfilled"
            /\ rx.result = ErrResult("function arguments are untyped", "")
            /\ ~rx.bodyRead /\ rx.envelopes = <<>>

C17_Witness ==
    /\ rx.state = "fulfilled"
    /\ ~rx.request.id.present /\ ~rx.request.argtype.present
    /\ DOMAIN rx.request.body.parts = {"0", "1"}
    /\ rx.result = ErrResult("id not provided", "")

\* The positions (from 1) of a tag string that fail validation: the character
\* is neither b nor j, or the part of that position is absent.
FailingPositions(argtype, parts) ==
    {i \in 1..Len(argtype) :
        argtype[i] \notin {"b", "j"} \/ PosKey(i - 1) \notin DOMAIN parts}

\* C18: validation stops at the first failing position i: an unknown
\* character gives "unknown argument type" naming route and tag string,
\* otherwise an absent part gives "missing argument" naming route, tag and
\* position; a part that is present is never reported missing; the
\* dispatcher is not called.
C18_ValidationOrder ==
    (/\ rx.state = "fulfilled"
     /\ rx.request.id.present /\ rx.request.argtype.present
     /\ ParseFormData(rx.request.contentType, rx.request.body).ok) =>
        LET id == rx.request.id.value
            argtype == rx.request.argtype.value
            parts == rx.request.body.parts
            failing == FailingPositions(argtype, parts)
            first == CHOOSE i \in failing : \A j \in failing : i <= j
        IN  /\ failing # {} =>
                /\ rx.envelopes = <<>>
                /\ rx.result =
                     IF argtype[first] \notin {"b", "j"}
                     THEN ErrResult("unknown argument type",
                            "Route [" \o id \o "] called with unknown argument type of ["
                                \o Join(argtype) \o "].")
                     ELSE ErrResult("missing argument",
                            "Route [" \o id \o "] is missing [" \o argtype[first]
                                \o "] type argument at position [" \o PosKey(first - 1)
                                \o "].")
            /\ failing = {} =>
                ~(rx.result.tag = "err"
                    /\ DOMAIN rx.result.value.props = {"missing argument"}
                    /\ rx.outcome = NoOutcome)

\* C19: after decoding, the dispatcher is called once with {ctx, id, args};
\* its failure is returned unchanged; its success with value v becomes
\* {ok: {body, headers}}, body holding the one part "0" (v for a binary blob,
\* otherwise the JSON text of v) and the tag header being b exactly for a
\* binary blob, j otherwise.
C19_ResultWrapping ==
    (rx.envelopes # <<>>) =>
        /\ Len(rx.envelopes) = 1
        /\ rx.envelopes[1].ctx = rx.ctx
        /\ rx.envelopes[1].id = rx.request.id.value
        /\ (rx.state = "fulfilled" /\ rx.outcome.result.tag = "err") =>
                rx.result = rx.outcome.result
        /\ (rx.state = "fulfilled" /\ rx.outcome.result.tag = "ok") =>
                LET v == rx.outcome.result.value
                    body == rx.result.value.body
                    tag == rx.result.value.headers.argtype
                IN  /\ rx.result.tag = "ok"
                    /\ DOMAIN body = {"0"}
                    /\ IF InstanceOfBlob(v)
                       THEN body["0"] = File(v.v) /\ tag = Header(<<"b">>)
                       ELSE /\ body["0"].t = "string"
                            /\ JSONParse(body["0"].v) = [threw |-> FALSE, value |-> v]
                            /\ tag = Header(<<"j">>)

\* C20: a response whose tag header is neither b nor j (or absent) rejects
\* the send with the decode error naming the route id, the body unread; a
\* response with a valid tag whose body has no part "0" rejects it with the
\* "no response" error naming the route id.
C20_ResponseErrors ==
    tx.responded =>
        LET tag == tx.response.argtype
            valid == tag.present /\ (tag.value = <<"b">> \/ tag.value = <<"j">>)
        IN  /\ ~valid =>
                /\ tx.state = "rejected"
                /\ tx.error = "Unable to parse response type ["
                                \o (IF tag.present THEN Join(tag.value) ELSE "null")
                                \o "] for [" \o tx.rpc.id \o "]."
                /\ ~tx.callback.bodyRead
            /\ (/\ valid
                /\ ParseFormData(tx.response.contentType, tx.response.body).ok
                /\ "0" \notin DOMAIN tx.response.body.parts) =>
                /\ tx.state = "rejected"
                /\ tx.error = "No response received for [" \o tx.rpc.id \o "]."

C20_Witness ==
    /\ tx.responded /\ tx.state = "rejected"
    /\ tx.response.argtype = Header(<<"x">>)
    /\ tx.response.body.parts = EmptyFormData
    /\ tx.rpc.id = "s missing"
    /\ tx.error = "Unable to parse response type [x] for [s missing]."

-----------------------------------------------------------------------------
(* Further properties of the transports and of the dispatcher *)

\* C21: a send issues one POST: the request of an invocation is made when it
\* starts and stays as it is; it carries rpc.id in x-simplycall-id, a tag
\* string with one character per argument (b exactly for a binary blob, j
\* otherwise) and one body part per argument, keyed by its position.
C21_OneRequestPerSend ==
    [][ (tx'.state # "none") =>
            LET request == tx'.request
                args == tx'.rpc.args
            IN  /\ request.method = "POST" /\ request.url = ConfigUrl
                /\ request.id = Header(tx'.rpc.id)
                /\ request.argtype.present
                /\ Len(request.argtype.value) = Len(args)
                /\ \A i \in 1..Len(args) :
                        request.argtype.value[i] = "b" <=> args[i].t = "blob"
                /\ \A i \in 1..Len(args) :
                        request.argtype.value[i] \in {"b", "j"}
                /\ DOMAIN request.body.parts = {PosKey(i - 1) : i \in 1..Len(args)}
                /\ (tx.state = "fetching" /\ tx'.state # "fetching") =>
                        (tx'.request = tx.request /\ tx'.rpc = tx.rpc)
      ]_vars

C21_Witness ==
    /\ tx.state = "fulfilled"
    /\ tx.rpc.args = <<JsString(""), Blob("B")>>
    /\ tx.request.argtype = Header(<<"j", "b">>)
    /\ DOMAIN tx.request.body.parts = {"0", "1"}

\* C22: a handler is called with the argument list its parser returned, not
\* with the envelope's arguments; the parser of an "assume typesafe" route
\* returns the envelope's arguments as they are and never fails.
C22_HandlerGetsParsedArguments ==
    \A k \in Calls :
        /\ calls[k].handlerCalled =>
            /\ calls[k].parse.called /\ ~calls[k].parse.threw
            /\ calls[k].handlerArgs = calls[k].parse.args
            /\ calls[k].route.parser.kind = "fn" =>
                    calls[k].handlerArgs \in ParsedLists
        /\ (calls[k].route.truthy /\ calls[k].route.parser.kind = "identity") =>
            /\ calls[k].parse.called /\ ~calls[k].parse.threw
            /\ calls[k].parse.args = calls[k].rpc.args
            /\ calls[k].handlerCalled => calls[k].handlerArgs = calls[k].rpc.args

C22_Witness ==
    \E k \in Calls :
        /\ calls[k].handlerCalled
        /\ calls[k].route.parser.kind = "fn"
        /\ calls[k].rpc.args = <<"x">>
        /\ calls[k].handlerArgs = <<"y">>
        /\ calls[k].state = "fulfilled"

\* C23: a dispatch looks the route up, then runs the parser, then the
\* handler, each at most once and the handler only after the parser has
\* returned; a dispatch that has ended has produced its one Result, of the
\* success kind or of one of the three failure kinds.
C23_OrderAndSingleResult ==
    \A k \in Calls :
        /\ calls[k].parse.called => calls[k].route.truthy
        /\ calls[k].handlerCalled =>
                (calls[k].route.truthy /\ calls[k].parse.called /\ ~calls[k].parse.threw)
        /\ calls[k].state = "awaiting" => calls[k].result = NoResult
        /\ calls[k].state # "awaiting" =>
                /\ calls[k].state = "fulfilled"
                /\ calls[k].result.kind \in
                        {"ok", "non existent route", "argument parsing failed",
                         "handler errored"}

\* C24: the argument list given to the dispatcher has one element per tag
\* character, part i as it is for tag b and part i parsed for tag j; parts at
\* positions beyond the tag string change neither the arguments nor the
\* result.
C24_DecodedArguments ==
    (rx.envelopes # <<>>) =>
        LET argtype == rx.request.argtype.value
            parts == rx.request.body.parts
            args == rx.envelopes[1].args
            used == {PosKey(i - 1) : i \in 1..Len(argtype)}
            trimmed == [k \in DOMAIN parts \cap used |-> parts[k]]
        IN  /\ Len(args) = Len(argtype)
            /\ \A i \in 1..Len(argtype) :
                    IF argtype[i] = "b"
                    THEN args[i] = parts[PosKey(i - 1)]
                    ELSE JSONStringify(args[i]) = parts[PosKey(i - 1)]
            /\ args = DecodeFrom(rx.request.id.value, argtype, trimmed, <<>>, 1).args
            /\ (rx.state = "fulfilled" /\ rx.outcome.result.tag = "err") =>
                    rx.result = rx.outcome.result
            /\ (rx.state = "fulfilled" /\ rx.outcome.result.tag = "ok") =>
                    rx.result = OkResult(Success(rx.outcome.result.value))

C24_Witness ==
    /\ rx.state = "fulfilled"
    /\ rx.request.argtype = Header(<<"j">>)
    /\ DOMAIN rx.request.body.parts = {"0", "1"}
    /\ rx.envelopes # <<>>
    /\ rx.envelopes[1].args = <<JsNumber("42")>>
    /\ rx.result.tag = "ok"

\* C25: a dispatch whose route is absent or whose parser raised has returned
\* its Result; a dispatch whose handler promise has settled eventually
\* returns its Result; a dispatch whose handler promise has not settled has
\* not returned.
C25_RunsToCompletion ==
    /\ \A k \in 1..MaxCalls :
            (k \in Calls /\ calls[k].state = "awaiting" /\ calls[k].outcome # Pending)
                ~> (k \in Calls /\ calls[k].state = "fulfilled" /\ calls[k].result # NoResult)
    /\ [](\A k \in Calls :
            /\ (~calls[k].route.truthy \/ calls[k].parse.threw) =>
                    (calls[k].state = "fulfilled" /\ calls[k].result # NoResult)
            /\ (calls[k].state = "awaiting" /\ calls[k].outcome = Pending) =>
                    calls[k].result = NoResult
            /\ (calls[k].handlerCalled /\ calls[k].state = "fulfilled") =>
                    calls[k].outcome # Pending)

C25_Witness ==
    /\ Len(calls) = 2
    /\ calls[1].state = "awaiting" /\ calls[1].outcome = Pending
    /\ calls[2].state = "fulfilled" /\ calls[2].handlerCalled
    /\ calls[2].result = Err("handler errored", "e")

\* C26: every registered entry holds a callable parser and a callable
\* handler.
C26_EntriesCallable ==
    \A id \in DOMAIN routes :
        /\ routes[id].parser.kind # "undefined"
        /\ routes[id].handler.kind # "undefined"

\* C27: the body and tag header the receive side makes for a handler's value
\* are decoded by the send side without raising, to a value equal to the
\* handler's value.
C27_ResultRoundTrip ==
    (/\ tx.responded
     /\ rx.state = "fulfilled" /\ rx.result.tag = "ok"
     /\ tx.response = ResponseFrom(rx.result.value)) =>
        /\ tx.callback.kind = "resolved"
        /\ SameArgument(rx.outcome.result.value, tx.callback.value)

====
